---- MODULE Spec2Model ----
(***************************************************************************)
(* Model of lammps_log_plot.py: the thermo-block segmenter                 *)
(* (parse_lammps_log) and the query part of main (run selection, column    *)
(* checks, x-range filter, averages, plotted series).                      *)
(*                                                                         *)
(* A raw line is a sequence of atoms: whitespace (SP) or a token.  Numbers *)
(* are fixed-point, in tenths (float("300.0") is 3000); a mean is an exact *)
(* fraction.  The Python cursor i is 0-based, the model's is 1-based.      *)
(*                                                                         *)
(* SpecSeg runs parse_lammps_log on a bounded text; runStart and opened    *)
(* are history variables (the header line of each run, the lines taken as  *)
(* headers) and result is the value returned.  SpecQuery runs main from    *)
(* the point where runs has been assigned, on bounded well-formed runs.    *)
(***************************************************************************)
EXTENDS Integers, Sequences, FiniteSets

VARIABLES lines, i, headers, data, runs, result, pc, runStart, opened,
          args, df, df_sel, printed, averages, series

vars == <<lines, i, headers, data, runs, result, pc, runStart, opened,
          args, df, df_sel, printed, averages, series>>

segVars == <<lines, i, headers, data, result, runStart, opened>>
mainVars == <<args, df, df_sel, printed, averages, series>>

\* ------------------------------------------------------------------ bounds
MaxLines == 4
MaxRuns == 1
MaxRows == 2

\* ------------------------------------------------------- text primitives
SP == " "

IsTok(a) == a # SP

\* str.split(): the whitespace-separated tokens of a line
split(line) == SelectSeq(line, IsTok)

RECURSIVE lstrip(_)
lstrip(line) ==
    IF line # <<>> /\ Head(line) = SP THEN lstrip(Tail(line)) ELSE line

RECURSIVE rstrip(_)
rstrip(line) ==
    IF line # <<>> /\ line[Len(line)] = SP
    THEN rstrip(SubSeq(line, 1, Len(line) - 1)) ELSE line

\* str.strip()
strip(line) == lstrip(rstrip(line))

\* tokens that begin with the characters "Step"
StepPrefixed == {"Step", "Steps"}

\* line.startswith("Step") on a stripped line
startswith_Step(line) == line # <<>> /\ Head(line) \in StepPrefixed

\* float(): the literals it accepts and their values, in tenths
FloatTable ==
    [t \in {"0", "100", "200", "300.0", "3e2", "301.5", "299.8", "310.0",
            "311.0", "1.0", "1.1", "0.9", "2.0", "2.1"} |->
        CASE t = "0" -> 0
          [] t = "100" -> 1000
          [] t = "200" -> 2000
          [] t = "300.0" -> 3000
          [] t = "3e2" -> 3000
          [] t = "301.5" -> 3015
          [] t = "299.8" -> 2998
          [] t = "310.0" -> 3100
          [] t = "311.0" -> 3110
          [] t = "1.0" -> 10
          [] t = "1.1" -> 11
          [] t = "0.9" -> 9
          [] t = "2.0" -> 20
          [] t = "2.1" -> 21]

\* float(t) does not raise ValueError
IsFloat(t) == t \in DOMAIN FloatTable

float(t) == FloatTable[t]

\* ------------------------------------------------------------ input texts
Blank == <<SP>>
HdrStepTemp == <<"Step", SP, "Temp">>
HdrDup == <<SP, "Steps", SP, "Temp", SP, "Temp">>
RowA == <<"0", SP, "300.0">>
RowB == <<SP, "100", SP, "3e2">>
RowBad == <<"100", SP, "abc">>
Row3 == <<"0", SP, "300.0", SP, "3e2">>
Row3Bad == <<"200", SP, "abc", SP, "0">>
Prose == <<"Loop", SP, "time">>

LineSet == {Blank, HdrStepTemp, HdrDup, RowA, RowB, RowBad, Row3, Row3Bad, Prose}

HdrExample == <<"Step", SP, "Temp", SP, "Press">>

ExampleText ==
    << HdrExample,
       <<"0", SP, "300.0", SP, "1.0">>,
       <<"100", SP, "301.5", SP, "1.1">>,
       <<"200", SP, "299.8", SP, "0.9">>,
       Blank,
       HdrExample,
       <<"0", SP, "310.0", SP, "2.0">>,
       <<"100", SP, "311.0", SP, "2.1">> >>

Texts == (UNION {[1..k -> LineSet] : k \in 0..MaxLines}) \cup {ExampleText}

NoArgs == [run |-> 0, x |-> "", y |-> <<>>, list |-> FALSE,
           x_min |-> <<>>, x_max |-> <<>>, avg_cols |-> <<>>]

\* ------------------------------------------------------------- segmenter
n == Len(lines)

InitSeg ==
    /\ lines \in Texts
    /\ i = 1
    /\ headers = <<>>
    /\ data = <<>>
    /\ runs = <<>>
    /\ result = <<>>
    /\ pc = "outer"
    /\ runStart = <<>>
    /\ opened = {}
    /\ args = NoArgs
    /\ df = 0
    /\ df_sel = <<>>
    /\ printed = <<>>
    /\ averages = <<>>
    /\ series = <<>>

RECURSIVE Dedup(_)
Dedup(s) ==
    IF s = <<>> THEN <<>>
    ELSE LET rest == Dedup(SubSeq(s, 1, Len(s) - 1))
         IN IF \E k \in 1..Len(rest) : rest[k] = s[Len(s)]
            THEN rest ELSE Append(rest, s[Len(s)])

\* variant: the header's names are deduplicated
OuterHeader_dedup ==
    /\ pc = "outer"
    /\ i <= n
    /\ startswith_Step(strip(lines[i]))
    /\ headers' = Dedup(split(strip(lines[i])))
    /\ opened' = opened \cup {i}
    /\ i' = i + 1
    /\ data' = <<>>
    /\ pc' = "inner"
    /\ UNCHANGED <<lines, runs, result, runStart>>
    /\ UNCHANGED mainVars

\* outer loop, header branch
OuterHeader ==
    /\ pc = "outer"
    /\ i <= n
    /\ startswith_Step(strip(lines[i]))
    /\ headers' = split(strip(lines[i]))
    /\ opened' = opened \cup {i}
    /\ i' = i + 1
    /\ data' = <<>>
    /\ pc' = "inner"
    /\ UNCHANGED <<lines, runs, result, runStart>>
    /\ UNCHANGED mainVars

\* outer loop, else branch
OuterSkip ==
    /\ pc = "outer"
    /\ i <= n
    /\ ~ startswith_Step(strip(lines[i]))
    /\ i' = i + 1
    /\ UNCHANGED <<lines, headers, data, runs, result, pc, runStart, opened>>
    /\ UNCHANGED mainVars

\* the three break conditions of the inner loop, and its exhaustion
EndsBlock(line, hdrs) ==
    IF line = <<>> THEN TRUE
    ELSE IF ~ IsFloat(split(line)[1]) THEN TRUE
    ELSE Len(split(line)) # Len(hdrs)

\* [float(p) for p in parts]
ConvertRow(parts) == [k \in 1..Len(parts) |-> float(parts[k])]

\* variant: rows are collected in reverse order
InnerRow_prepend ==
    /\ pc = "inner"
    /\ i <= n
    /\ ~ EndsBlock(strip(lines[i]), headers)
    /\ \A k \in 1..Len(split(strip(lines[i]))) : IsFloat(split(strip(lines[i]))[k])
    /\ data' = <<ConvertRow(split(strip(lines[i])))>> \o data
    /\ i' = i + 1
    /\ UNCHANGED <<lines, headers, runs, result, pc, runStart, opened>>
    /\ UNCHANGED mainVars

\* inner loop: a line passes the three checks and converts
InnerRow ==
    /\ pc = "inner"
    /\ i <= n
    /\ ~ EndsBlock(strip(lines[i]), headers)
    /\ \A k \in 1..Len(split(strip(lines[i]))) : IsFloat(split(strip(lines[i]))[k])
    /\ data' = Append(data, ConvertRow(split(strip(lines[i]))))
    /\ i' = i + 1
    /\ UNCHANGED <<lines, headers, runs, result, pc, runStart, opened>>
    /\ UNCHANGED mainVars

\* variant: the conversion error is swallowed and the block ends
InnerRaise_truncate ==
    /\ pc = "inner"
    /\ i <= n
    /\ ~ EndsBlock(strip(lines[i]), headers)
    /\ \E k \in 1..Len(split(strip(lines[i]))) : ~ IsFloat(split(strip(lines[i]))[k])
    /\ IF data # <<>>
       THEN /\ runs' = Append(runs, [columns |-> headers, rows |-> data])
            /\ runStart' = Append(runStart, i - Len(data) - 1)
       ELSE UNCHANGED <<runs, runStart>>
    /\ i' = i + 1
    /\ pc' = "outer"
    /\ UNCHANGED <<lines, headers, data, result, opened>>
    /\ UNCHANGED mainVars

\* inner loop: a line passes the three checks, a later token raises ValueError
InnerRaise ==
    /\ pc = "inner"
    /\ i <= n
    /\ ~ EndsBlock(strip(lines[i]), headers)
    /\ \E k \in 1..Len(split(strip(lines[i]))) : ~ IsFloat(split(strip(lines[i]))[k])
    /\ pc' = "raised"
    /\ UNCHANGED <<lines, i, headers, data, runs, result, runStart, opened>>
    /\ UNCHANGED mainVars

\* variant: the run is appended without the `if data:` test
InnerBreak_keepEmpty ==
    /\ pc = "inner"
    /\ (i <= n => EndsBlock(strip(lines[i]), headers))
    /\ runs' = Append(runs, [columns |-> headers, rows |-> data])
    /\ runStart' = Append(runStart, i - Len(data) - 1)
    /\ pc' = "outer"
    /\ UNCHANGED <<lines, i, headers, data, result, opened>>
    /\ UNCHANGED mainVars

\* variant: the line that ends the block is consumed by it
InnerBreak_consume ==
    /\ pc = "inner"
    /\ (i <= n => EndsBlock(strip(lines[i]), headers))
    /\ IF data # <<>>
       THEN /\ runs' = Append(runs, [columns |-> headers, rows |-> data])
            /\ runStart' = Append(runStart, i - Len(data) - 1)
       ELSE UNCHANGED <<runs, runStart>>
    /\ i' = IF i <= n THEN i + 1 ELSE i
    /\ pc' = "outer"
    /\ UNCHANGED <<lines, headers, data, result, opened>>
    /\ UNCHANGED mainVars

\* inner loop ends (break or i = n), then `if data:` appends the run
InnerBreak ==
    /\ pc = "inner"
    /\ (i <= n => EndsBlock(strip(lines[i]), headers))
    /\ IF data # <<>>
       THEN /\ runs' = Append(runs, [columns |-> headers, rows |-> data])
            /\ runStart' = Append(runStart, i - Len(data) - 1)
       ELSE UNCHANGED <<runs, runStart>>
    /\ pc' = "outer"
    /\ UNCHANGED <<lines, i, headers, data, result, opened>>
    /\ UNCHANGED mainVars

\* outer loop exhausted: return runs
Return ==
    /\ pc = "outer"
    /\ i > n
    /\ result' = runs
    /\ pc' = "parsed"
    /\ UNCHANGED <<lines, i, headers, data, runs, runStart, opened>>
    /\ UNCHANGED mainVars

NextSeg == OuterHeader \/ OuterSkip \/ InnerRow \/ InnerRaise \/ InnerBreak \/ Return

SpecSeg == InitSeg /\ [][NextSeg]_vars

\* ------------------------------------------------------------ query (main)
QCols == <<"Step", "Temp">>

RowSet == {<<0, 3000>>, <<1000, 3000>>, <<2000, 3015>>}

RunSet ==
    {[columns |-> QCols, rows |-> rs] :
        rs \in UNION {[1..k -> RowSet] : k \in 1..MaxRows}}

\* the two runs of the end-to-end example
ExampleDoc ==
    << [columns |-> <<"Step", "Temp", "Press">>,
        rows |-> << <<0, 3000, 10>>, <<1000, 3015, 11>>, <<2000, 2998, 9>> >>],
       [columns |-> <<"Step", "Temp", "Press">>,
        rows |-> << <<0, 3100, 20>>, <<1000, 3110, 21>> >>] >>

Docs == (UNION {[1..k -> RunSet] : k \in 0..MaxRuns}) \cup {ExampleDoc}

\* an optional float: <<>> is None, <<v>> is v
BoundSet == {<<>>, <<0>>, <<1000>>}

\* an optional column list (nargs="+"): <<>> is None
ColumnLists == {<<>>, <<"Temp">>, <<"Temp", "Nope">>}

ArgSet(doc) ==
    [run : 0..(Len(doc) + 1), x : {"Step", "Nope"}, y : ColumnLists,
     list : BOOLEAN, x_min : BoundSet, x_max : BoundSet,
     avg_cols : ColumnLists]

\* state after `runs = parse_lammps_log(args.logfile)`
InitQuery ==
    /\ runs \in Docs
    /\ args \in ArgSet(runs)
    /\ pc = "main"
    /\ lines = <<>>
    /\ i = 1
    /\ headers = <<>>
    /\ data = <<>>
    /\ result = runs
    /\ runStart = <<>>
    /\ opened = {}
    /\ df = 0
    /\ df_sel = <<>>
    /\ printed = <<>>
    /\ averages = <<>>
    /\ series = <<>>

\* col in df.columns
HasColumn(run, col) == \E k \in 1..Len(run.columns) : run.columns[k] = col

ColumnIndex(run, col) == CHOOSE k \in 1..Len(run.columns) : run.columns[k] = col

\* [col for col in cols if col not in df.columns]
Missing(run, cols) ==
    LET Absent(c) == ~ HasColumn(run, c) IN SelectSeq(cols, Absent)

\* df_sel[col]
Column(rows, k) == [j \in 1..Len(rows) |-> rows[j][k]]

\* variant: the bounds are exclusive
FilterRows_strict(rows, k, x_min, x_max) ==
    LET AboveMin(r) == x_min = <<>> \/ r[k] > x_min[1]
        BelowMax(r) == x_max = <<>> \/ r[k] < x_max[1]
    IN SelectSeq(SelectSeq(rows, AboveMin), BelowMax)

\* the two boolean-mask selections on the x column
FilterRows(rows, k, x_min, x_max) ==
    LET AboveMin(r) == x_min = <<>> \/ r[k] >= x_min[1]
        BelowMax(r) == x_max = <<>> \/ r[k] <= x_max[1]
    IN SelectSeq(SelectSeq(rows, AboveMin), BelowMax)

RECURSIVE Sum(_)
Sum(s) == IF s = <<>> THEN 0 ELSE Head(s) + Sum(Tail(s))

RECURSIVE GCD(_, _)
GCD(a, b) == IF b = 0 THEN a ELSE GCD(b, a % b)

\* the fraction a / b in lowest terms (a >= 0, b > 0)
Fraction(a, b) == [num |-> a \div GCD(a, b), den |-> b \div GCD(a, b)]

Min(s) == CHOOSE v \in {s[j] : j \in 1..Len(s)} : \A j \in 1..Len(s) : v <= s[j]

Max(s) == CHOOSE v \in {s[j] : j \in 1..Len(s)} : \A j \in 1..Len(s) : v >= s[j]

\* variant: the mean is taken over the whole run
Mean_wholeRun(rows, k) ==
    Fraction(Sum(Column(runs[df].rows, k)), Len(runs[df].rows))

\* Series.mean() of column k of the given rows
Mean(rows, k) == Fraction(Sum(Column(rows, k)), Len(rows))

\* print(...): one console message, by kind
Message(msg) == printed' = Append(printed, msg)

\* `if not runs:`
NoRunsFound ==
    /\ pc = "main"
    /\ runs = <<>>
    /\ Message("NoRunsFound")
    /\ pc' = "done"
    /\ UNCHANGED <<runs, args, df, df_sel, averages, series>>
    /\ UNCHANGED segVars

\* `if args.list:`
ListRuns ==
    /\ pc = "main"
    /\ runs # <<>>
    /\ args.list
    /\ Message("Listing")
    /\ pc' = IF args.y = <<>> /\ args.avg_cols = <<>> THEN "done" ELSE "check_run"
    /\ UNCHANGED <<runs, args, df, df_sel, averages, series>>
    /\ UNCHANGED segVars

\* variant: the lower test is run_idx < 0, so 0 indexes runs[-1]
CheckRunIndex_offByOne ==
    /\ \/ pc = "check_run"
       \/ pc = "main" /\ runs # <<>> /\ ~ args.list
    /\ IF args.run < 0 \/ args.run > Len(runs)
       THEN /\ Message("OutOfRange")
            /\ pc' = "done"
            /\ df' = df
       ELSE /\ df' = IF args.run = 0 THEN Len(runs) ELSE args.run
            /\ pc' = "check_x"
            /\ printed' = printed
    /\ UNCHANGED <<runs, args, df_sel, averages, series>>
    /\ UNCHANGED segVars

\* run index check and `df = runs[run_idx - 1]`; df holds the 1-based index
CheckRunIndex ==
    /\ \/ pc = "check_run"
       \/ pc = "main" /\ runs # <<>> /\ ~ args.list
    /\ IF args.run < 1 \/ args.run > Len(runs)
       THEN /\ Message("OutOfRange")
            /\ pc' = "done"
            /\ df' = df
       ELSE /\ df' = args.run
            /\ pc' = "check_x"
            /\ printed' = printed
    /\ UNCHANGED <<runs, args, df_sel, averages, series>>
    /\ UNCHANGED segVars

\* `if args.x not in df.columns:`
CheckXColumn ==
    /\ pc = "check_x"
    /\ IF ~ HasColumn(runs[df], args.x)
       THEN /\ Message("UnknownXColumn")
            /\ pc' = "done"
       ELSE /\ pc' = "filter"
            /\ printed' = printed
    /\ UNCHANGED <<runs, args, df, df_sel, averages, series>>
    /\ UNCHANGED segVars

\* variant: an empty selection is reported only if something was requested
FilterRange_emptyIfRequested ==
    /\ pc = "filter"
    /\ df_sel' = FilterRows(runs[df].rows, ColumnIndex(runs[df], args.x),
                            args.x_min, args.x_max)
    /\ IF df_sel' = <<>> /\ (args.y # <<>> \/ args.avg_cols # <<>>)
       THEN /\ Message("EmptyResult")
            /\ pc' = "done"
       ELSE /\ pc' = "check_todo"
            /\ printed' = printed
    /\ UNCHANGED <<runs, args, df, averages, series>>
    /\ UNCHANGED segVars

\* x-range filter and `if df_sel.empty:`
FilterRange ==
    /\ pc = "filter"
    /\ df_sel' = FilterRows(runs[df].rows, ColumnIndex(runs[df], args.x),
                            args.x_min, args.x_max)
    /\ IF df_sel' = <<>>
       THEN /\ Message("EmptyResult")
            /\ pc' = "done"
       ELSE /\ pc' = "check_todo"
            /\ printed' = printed
    /\ UNCHANGED <<runs, args, df, averages, series>>
    /\ UNCHANGED segVars

\* `if (args.y is None or len(args.y) == 0) and not args.avg_cols:`
CheckNothingToDo ==
    /\ pc = "check_todo"
    /\ IF args.y = <<>> /\ args.avg_cols = <<>>
       THEN /\ Message("NothingRequested")
            /\ pc' = "done"
       ELSE /\ pc' = "check_y"
            /\ printed' = printed
    /\ UNCHANGED <<runs, args, df, df_sel, averages, series>>
    /\ UNCHANGED segVars

\* `if args.y:` missing y-columns
CheckYColumns ==
    /\ pc = "check_y"
    /\ IF args.y # <<>> /\ Missing(runs[df], args.y) # <<>>
       THEN /\ Message("UnknownYColumns")
            /\ pc' = "done"
       ELSE /\ pc' = "average"
            /\ printed' = printed
    /\ UNCHANGED <<runs, args, df, df_sel, averages, series>>
    /\ UNCHANGED segVars

\* the effective x-range printed with the averages
EffectiveRange ==
    LET xs == Column(df_sel, ColumnIndex(runs[df], args.x))
    IN << IF args.x_min # <<>> THEN args.x_min[1] ELSE Min(xs),
          IF args.x_max # <<>> THEN args.x_max[1] ELSE Max(xs) >>

\* `if args.avg_cols:`; the missing-columns branch prints and falls through
Averages ==
    /\ pc = "average"
    /\ IF args.avg_cols = <<>>
       THEN UNCHANGED <<printed, averages>>
       ELSE IF Missing(runs[df], args.avg_cols) # <<>>
       THEN /\ Message("UnknownAvgColumns")
            /\ averages' = averages
       ELSE /\ Message("Averages")
            /\ averages' =
                  << [range |-> EffectiveRange,
                      means |-> [k \in 1..Len(args.avg_cols) |->
                         [col |-> args.avg_cols[k],
                          mean |-> Mean(df_sel,
                                        ColumnIndex(runs[df], args.avg_cols[k]))]]] >>
    /\ pc' = "plot"
    /\ UNCHANGED <<runs, args, df, df_sel, series>>
    /\ UNCHANGED segVars

\* `if args.y:` one line per y-column over the filtered rows
Plot ==
    /\ pc = "plot"
    /\ IF args.y = <<>>
       THEN series' = series
       ELSE series' =
               [k \in 1..Len(args.y) |->
                  [label |-> args.y[k],
                   xs |-> Column(df_sel, ColumnIndex(runs[df], args.x)),
                   ys |-> Column(df_sel, ColumnIndex(runs[df], args.y[k]))]]
    /\ pc' = "done"
    /\ UNCHANGED <<runs, args, df, df_sel, printed, averages>>
    /\ UNCHANGED segVars

NextQuery ==
    \/ NoRunsFound \/ ListRuns \/ CheckRunIndex \/ CheckXColumn \/ FilterRange
    \/ CheckNothingToDo \/ CheckYColumns \/ Averages \/ Plot

SpecQuery == InitQuery /\ [][NextQuery]_vars

\* ------------------------------------------------- segmentation properties
Toks(j) == split(strip(lines[j]))

IsHdr(j) == startswith_Step(strip(lines[j]))

IsBlankLine(j) == strip(lines[j]) = <<>>

\* line j has k tokens, the first of them numeric
FirstNumericRow(j, k) ==
    /\ Len(Toks(j)) = k
    /\ k >= 1
    /\ IsFloat(Toks(j)[1])

\* line j has k tokens, all of them numeric
NumericRow(j, k) ==
    /\ Len(Toks(j)) = k
    /\ k >= 1
    /\ \A c \in 1..k : IsFloat(Toks(j)[c])

\* the block opened at line h has its m rows followed by a blank line or
\* by the end of the input
Terminated(h, m) == h + m = n \/ IsBlankLine(h + m + 1)

\* exactly one returned run starts at header h, and it has the header's
\* columns and the m converted rows
YieldsRun(h, m) ==
    /\ Cardinality({r \in 1..Len(result) : runStart[r] = h}) = 1
    /\ \A r \in 1..Len(result) :
          runStart[r] = h =>
             /\ result[r].columns = Toks(h)
             /\ Len(result[r].rows) = m
             /\ \A j \in 1..m : \A c \in 1..Len(Toks(h)) :
                   /\ IsFloat(Toks(h + j)[c])
                   /\ result[r].rows[j][c] = float(Toks(h + j)[c])

\* C3 as stated: once segmentation has ended, every block of a header
\* with k names and m >= 1 lines of k tokens with a numeric first token,
\* ended by a blank line or the end of input, has yielded exactly one run
\* with those columns and rows.
C3_AsStated ==
    pc \in {"parsed", "raised"} =>
       \A h \in 1..n : \A m \in 1..n :
          ( /\ h + m <= n
            /\ IsHdr(h)
            /\ \A j \in (h + 1)..(h + m) : FirstNumericRow(j, Len(Toks(h)))
            /\ Terminated(h, m) )
          => YieldsRun(h, m)

\* C3 amended: when segmentation returns, every block of a header with k
\* names and m >= 1 lines of k tokens that are all numeric, ended by a
\* blank line or the end of input, has yielded exactly one run with the k
\* columns in header order and the m rows in file order, converted
\* positionally.
C3_BlockYieldsRun ==
    pc = "parsed" =>
       \A h \in 1..n : \A m \in 1..n :
          ( /\ h + m <= n
            /\ IsHdr(h)
            /\ \A j \in (h + 1)..(h + m) : NumericRow(j, Len(Toks(h)))
            /\ Terminated(h, m) )
          => YieldsRun(h, m)

C3_Witness ==
    /\ pc = "parsed"
    /\ Len(result) = 1
    /\ Len(result[1].rows) = 2
    /\ result[1].rows[1] # result[1].rows[2]
    /\ runStart[1] + 2 < n
    /\ IsBlankLine(runStart[1] + 3)

WellFormed(run) ==
    /\ Len(run.rows) >= 1
    /\ \A j \in 1..Len(run.rows) : Len(run.rows[j]) = Len(run.columns)

\* the line after header h is not a data line of its block
NoDataAfter(h) ==
    IF h = n THEN TRUE
    ELSE IF IsBlankLine(h + 1) THEN TRUE
    ELSE IF ~ IsFloat(Toks(h + 1)[1]) THEN TRUE
    ELSE Len(Toks(h + 1)) # Len(Toks(h))

\* C4: every run collected or returned has at least one row and all its
\* rows have len(columns) values; a header followed by no valid data line
\* (blank, non-numeric first token, wrong token count, end of input)
\* contributes no run.
C4_RunsWellFormed ==
    /\ \A r \in 1..Len(runs) : WellFormed(runs[r])
    /\ \A r \in 1..Len(result) : WellFormed(result[r])
    /\ pc = "parsed" =>
          \A h \in 1..n :
             (IsHdr(h) /\ NoDataAfter(h)) =>
                ~ \E r \in 1..Len(result) : runStart[r] = h

C4_Witness ==
    /\ pc = "parsed"
    /\ Len(result) = 1
    /\ \E h \in 1..n : IsHdr(h) /\ NoDataAfter(h) /\ h # runStart[1]

Distinct(s) == \A a \in 1..Len(s) : \A b \in 1..Len(s) : a # b => s[a] # s[b]

\* C5 as stated: the column names of every run are pairwise distinct.
C5_AsStated ==
    \A r \in 1..Len(runs) : Distinct(runs[r].columns)

\* C5 amended: the column names of every run are the whitespace-separated
\* tokens of its header line, all of them, in the order of the header
\* line (a repeated name is kept as many times as it appears).
C5_ColumnsAreHeaderTokens ==
    \A r \in 1..Len(runs) :
       /\ IsHdr(runStart[r])
       /\ runs[r].columns = Toks(runStart[r])

C5_Witness ==
    /\ pc = "parsed"
    /\ \E r \in 1..Len(result) : ~ Distinct(result[r].columns)

\* C9: no header is skipped.  Every Step-prefixed line the cursor has
\* passed was opened as a header, whatever precedes it; the line that ends
\* a block is left to the outer scan; the runs are in file order, and a
\* header that directly follows another block's rows has its own run.
C9_NoHeaderSkipped ==
    /\ \A j \in 1..n : (j < i /\ IsHdr(j)) => j \in opened
    /\ \A j \in opened : IsHdr(j)
    /\ \A r \in 1..Len(runs) :
          /\ runStart[r] \in opened
          /\ r > 1 => runStart[r] > runStart[r - 1] + Len(runs[r - 1].rows)
    /\ pc = "parsed" =>
          \A h \in 1..n :
             (IsHdr(h) /\ h < n /\ NumericRow(h + 1, Len(Toks(h)))) =>
                \E r \in 1..Len(result) : runStart[r] = h

C9_Witness ==
    /\ pc = "parsed"
    /\ Len(result) = 2
    /\ runStart[2] = runStart[1] + Len(result[1].rows) + 1
    /\ IsHdr(runStart[2])

\* line i is examined by the inner loop, has a numeric first token and a
\* non-numeric later token
BadLaterToken ==
    /\ pc = "inner"
    /\ i <= n
    /\ ~ IsBlankLine(i)
    /\ IsFloat(Toks(i)[1])
    /\ \E k \in 2..Len(Toks(i)) : ~ IsFloat(Toks(i)[k])

\* one step of the segmenter, seen from a line with a bad later token
C10_Step ==
    /\ BadLaterToken =>
          IF Len(Toks(i)) = Len(headers)
          THEN /\ pc' = "raised"
               /\ result' = <<>>
               /\ runs' = runs
          ELSE /\ pc' = "outer"
               /\ i' = i
               /\ runs' = IF data # <<>>
                          THEN Append(runs, [columns |-> headers, rows |-> data])
                          ELSE runs
    /\ pc = "raised" => (pc' = "raised" /\ result' = <<>>)

\* C10: a line of an active block with a numeric first token, the
\* header's token count and a non-numeric later token ends segmentation in
\* the conversion error: nothing is returned then or later.  The same line
\* with another token count ends the block cleanly, with the rows
\* collected so far, and stays under the cursor.
C10_ConversionErrorIsFatal == [][C10_Step]_vars

C10_Witness ==
    /\ pc = "raised"
    /\ data # <<>>
    /\ Len(Toks(i)) = Len(headers)

\* ------------------------------------------------------- query properties
Has(msg) == \E k \in 1..Len(printed) : printed[k] = msg

LastMessage(msg) == printed # <<>> /\ printed[Len(printed)] = msg

UnknownColumnReported ==
    Has("UnknownXColumn") \/ Has("UnknownYColumns") \/ Has("UnknownAvgColumns")

\* a run is selected and a requested column is absent from it
ColumnAbsent ==
    /\ df # 0
    /\ \/ ~ HasColumn(runs[df], args.x)
       \/ Missing(runs[df], args.y) # <<>>
       \/ Missing(runs[df], args.avg_cols) # <<>>

\* C1: for a selected run with x_column, a y column or an avg column
\* absent, the query ends with an UnknownColumn message and with neither
\* averages nor a plotted series.
C1_AllOrNothing ==
    (pc = "done" /\ ColumnAbsent) =>
       /\ UnknownColumnReported
       /\ averages = <<>>
       /\ series = <<>>

\* a run is selected and has the x column: the range filter has run
XValid == df # 0 /\ HasColumn(runs[df], args.x)

NothingAsked == args.y = <<>> /\ args.avg_cols = <<>>

\* C2 as stated: EmptyResult only for an empty view with averaging or
\* plotting requested; with a run selected, a valid x column and neither y
\* nor avg columns, the outcome is NothingRequested.
C2_AsStated ==
    (pc = "done" /\ XValid) =>
       /\ Has("EmptyResult") => (df_sel = <<>> /\ ~ NothingAsked)
       /\ NothingAsked => LastMessage("NothingRequested")

\* C2 amended: with a run selected and a valid x column, the query ends
\* with EmptyResult exactly when the filtered view has zero rows, whether
\* or not averaging or plotting was requested; NothingRequested is the
\* outcome exactly when neither y nor avg columns were given and the view
\* has at least one row.
C2_EmptyBeforeNothing ==
    (pc = "done" /\ XValid) =>
       /\ Has("EmptyResult") <=> df_sel = <<>>
       /\ df_sel = <<>> => LastMessage("EmptyResult")
       /\ Has("NothingRequested") <=> (NothingAsked /\ df_sel # <<>>)
       /\ Has("NothingRequested") => LastMessage("NothingRequested")

C2_Witness ==
    /\ pc = "done"
    /\ XValid
    /\ NothingAsked
    /\ df_sel = <<>>
    /\ LastMessage("EmptyResult")

BadIndex == args.run < 1 \/ args.run > Len(runs)

ListOnly == args.list /\ NothingAsked

NothingSelected ==
    /\ df = 0
    /\ df_sel = <<>>
    /\ averages = <<>>
    /\ series = <<>>

\* C6 as stated: a run index below 1 or above len(runs) ends the
\* invocation with OutOfRange, nothing selected, filtered, averaged or
\* plotted.
C6_AsStated ==
    (pc = "done" /\ BadIndex) =>
       /\ LastMessage("OutOfRange")
       /\ NothingSelected

\* C6 amended: when at least one run was found and the invocation is not
\* a listing-only one, a run index below 1 or above len(runs) ends the
\* invocation with OutOfRange as its only error message, without raising;
\* whatever the other arguments, such an index never selects, filters,
\* averages or plots a run.
C6_OutOfRange ==
    BadIndex =>
       /\ NothingSelected
       /\ pc \in {"main", "check_run", "done"}
       /\ (pc = "done" /\ runs # <<>> /\ ~ ListOnly) =>
             /\ LastMessage("OutOfRange")
             /\ \A k \in 1..Len(printed) : printed[k] \in {"Listing", "OutOfRange"}

C6_Witness ==
    /\ pc = "done"
    /\ runs # <<>>
    /\ args.run = Len(runs) + 1
    /\ LastMessage("OutOfRange")

\* the x-range filter has produced df_sel
Filtered == XValid /\ pc \notin {"check_x", "filter"}

InRange(v) ==
    /\ args.x_min = <<>> \/ args.x_min[1] <= v
    /\ args.x_max = <<>> \/ v <= args.x_max[1]

\* indices of the selected run's rows whose x value is in range
Kept ==
    {j \in 1..Len(runs[df].rows) :
        InRange(runs[df].rows[j][ColumnIndex(runs[df], args.x)])}

\* the p-th smallest element of Kept
KeptAt(p) == CHOOSE j \in Kept : Cardinality({q \in Kept : q <= j}) = p

\* C7: the filtered view is exactly the rows of the selected run whose x
\* value v has x_min <= v <= x_max, both bounds inclusive, an omitted bound
\* not restricting, in the original row order; with both bounds omitted it
\* is the whole run.
C7_InclusiveRange ==
    Filtered =>
       /\ Len(df_sel) = Cardinality(Kept)
       /\ \A p \in 1..Len(df_sel) : df_sel[p] = runs[df].rows[KeptAt(p)]
       /\ (args.x_min = <<>> /\ args.x_max = <<>>) => df_sel = runs[df].rows

C7_Witness ==
    /\ Filtered
    /\ args.x_min = <<1000>>
    /\ args.x_max = <<1000>>
    /\ Len(df_sel) = 1
    /\ Len(runs[df].rows) = 3

\* the values of the named column over the filtered view
ViewColumn(col) == Column(df_sel, ColumnIndex(runs[df], col))

IsConstant(s) == \A a \in 1..Len(s) : s[a] = s[1]

\* the example of the specification: Temp of run 1 over Step in [0, 100]
ExampleQuery ==
    /\ runs = ExampleDoc
    /\ df = 1
    /\ args.x = "Step"
    /\ args.x_min = <<0>>
    /\ args.x_max = <<1000>>

\* C8: each reported average is the unweighted mean of its column over the
\* rows of the filtered view: mean * rowcount is the sum over the view, a
\* one-row view gives the row's value, a column constant over the run
\* gives that constant, and the example gives 300.75 (6015/2 tenths).
C8_MeanOverView ==
    averages # <<>> =>
       /\ Len(averages[1].means) = Len(args.avg_cols)
       /\ \A k \in 1..Len(averages[1].means) :
             LET col == averages[1].means[k].col
                 m == averages[1].means[k].mean
                 whole == Column(runs[df].rows, ColumnIndex(runs[df], col))
             IN /\ col = args.avg_cols[k]
                /\ m.den >= 1
                /\ m.num * Len(df_sel) = Sum(ViewColumn(col)) * m.den
                /\ Len(df_sel) = 1 => m = [num |-> df_sel[1][ColumnIndex(runs[df], col)], den |-> 1]
                /\ IsConstant(whole) => m = [num |-> whole[1], den |-> 1]
                /\ (ExampleQuery /\ col = "Temp") => m = [num |-> 6015, den |-> 2]

C8_Witness ==
    /\ averages # <<>>
    /\ ExampleQuery
    /\ averages[1].means[1].col = "Temp"
    /\ Len(df_sel) = 2

====
